---- MODULE Spec2Model ----
(***************************************************************************)
(* Model of the DataChannel control-message codec: the Message envelope    *)
(* (src/src/message.rs), its layered errors (src/src/error.rs) and the     *)
(* stage codecs it delegates to (MessageType, ChannelType,                  *)
(* DataChannelOpen), whose modules are declared in message.rs lines 8-10   *)
(* and described by spec.md sections 4.1-4.4 and 6.                         *)
(*                                                                         *)
(* Bytes are integers 0..255, buffers are sequences of bytes.  A decoder   *)
(* takes the unread bytes of the cursor and returns a Result together with *)
(* the bytes it leaves unread.                                             *)
(***************************************************************************)
EXTENDS Integers, Sequences, FiniteSets, TLC

VARIABLES pc, msg, sink0, sink, written, buf, origin, rest, result

vars == <<pc, msg, sink0, sink, written, buf, origin, rest, result>>

----------------------------------------------------------------------------
(* Bounds of the model *)

\* longest label of an enumerated DataChannelOpen
MaxLabelLen == 2
\* longest protocol of an enumerated DataChannelOpen
MaxProtocolLen == 1
\* most bytes appended after a complete encoding
MaxExtraLen == 1
\* most bytes following the first byte of a free-form receive buffer
MaxTailLen == 2
\* most bytes following the fixed header of a hand-built DATA_CHANNEL_OPEN frame
MaxBodyLen == 3
\* largest small length a hand-built frame declares for label or protocol
MaxDeclaredLen == 2

----------------------------------------------------------------------------
(* Fixed-width integers and byte strings *)

Byte == 0..255
U16 == 2^16
\* a 32-bit unsigned value is held as <<high 16 bits, low 16 bits>>: the
\* model checker's integers are 32-bit signed
U32(hi, lo) == << hi, lo >>

Min(a, b) == IF a < b THEN a ELSE b

\* the bytes of b after the first n
Drop(b, n) == SubSeq(b, n + 1, Len(b))
\* the first n bytes of b
Take(b, n) == SubSeq(b, 1, n)

\* BufMut::put_u16 / put_u32: big-endian
put_u16(n) == << (n \div 2^8) % 2^8, n % 2^8 >>
put_u32(n) == << (n[1] \div 2^8) % 2^8, n[1] % 2^8, (n[2] \div 2^8) % 2^8, n[2] % 2^8 >>
\* Buf::get_u16 / get_u32 at the front of b: big-endian
get_u16(b) == b[1] * 2^8 + b[2]
get_u32(b) == U32(b[1] * 2^8 + b[2], b[3] * 2^8 + b[4])

\* all byte strings over alphabet A of length at most n
RECURSIVE SeqsUpTo(_, _)
SeqsUpTo(A, n) ==
  IF n = 0 THEN { <<>> }
  ELSE LET S == SeqsUpTo(A, n - 1)
       IN  S \cup { Append(s, a) : s \in { t \in S : Len(t) = n - 1 }, a \in A }

----------------------------------------------------------------------------
(* Result values *)

Ok(v) == [ok |-> TRUE, value |-> v]
Err(e) == [ok |-> FALSE, error |-> e]

----------------------------------------------------------------------------
(* Error taxonomy, src/src/error.rs *)

\* ChannelTypeError
ChannelTypeError_UnexpectedEndOfBuffer(e, a) ==
  [enum |-> "ChannelTypeError", variant |-> "UnexpectedEndOfBuffer", expected |-> e, actual |-> a]
ChannelTypeError_InvalidChannelType(b) ==
  [enum |-> "ChannelTypeError", variant |-> "InvalidChannelType", invalid_type |-> b]

\* DataChannelOpenError
DataChannelOpenError_UnexpectedEndOfBuffer(e, a) ==
  [enum |-> "DataChannelOpenError", variant |-> "UnexpectedEndOfBuffer", expected |-> e, actual |-> a]
DataChannelOpenError_ExpectedAndActualLengthMismatch(e, a) ==
  [enum |-> "DataChannelOpenError", variant |-> "ExpectedAndActualLengthMismatch", expected |-> e, actual |-> a]
\* ChannelType(#[from] ChannelTypeError)
DataChannelOpenError_from_ChannelTypeError(inner) ==
  [enum |-> "DataChannelOpenError", variant |-> "ChannelType", inner |-> inner]

\* MessageTypeError
MessageTypeError_UnexpectedEndOfBuffer(e, a) ==
  [enum |-> "MessageTypeError", variant |-> "UnexpectedEndOfBuffer", expected |-> e, actual |-> a]
MessageTypeError_InvalidMessageType(b) ==
  [enum |-> "MessageTypeError", variant |-> "InvalidMessageType", invalid_type |-> b]

\* MessageError: the direct variants, which carry no inner error
MessageError_UnexpectedEndOfBuffer(e, a) ==
  [enum |-> "MessageError", variant |-> "UnexpectedEndOfBuffer", expected |-> e, actual |-> a]
MessageError_ExpectedAndActualLengthMismatch(e, a) ==
  [enum |-> "MessageError", variant |-> "ExpectedAndActualLengthMismatch", expected |-> e, actual |-> a]
MessageError_InvalidPayloadProtocolIdentifier ==
  [enum |-> "MessageError", variant |-> "InvalidPayloadProtocolIdentifier"]

\* a conversion that flattens the stage error into MessageError's own variants
Flatten_MessageError(inner) ==
  IF inner.variant = "UnexpectedEndOfBuffer"
    THEN MessageError_UnexpectedEndOfBuffer(inner.expected, inner.actual)
  ELSE IF inner.variant = "ExpectedAndActualLengthMismatch"
    THEN MessageError_ExpectedAndActualLengthMismatch(inner.expected, inner.actual)
  ELSE MessageError_InvalidPayloadProtocolIdentifier

\* MessageType(#[from] MessageTypeError)
MessageError_from_MessageTypeError(inner) ==
  [enum |-> "MessageError", variant |-> "MessageType", inner |-> inner]
\* DataChannelOpen(#[from] DataChannelOpenError)
MessageError_from_DataChannelOpenError(inner) ==
  [enum |-> "MessageError", variant |-> "DataChannelOpen", inner |-> inner]

\* the error at the bottom of a chain of wrapping variants
RECURSIVE InnermostCause(_)
InnermostCause(e) ==
  IF "inner" \in DOMAIN e THEN InnermostCause(e.inner) ELSE e

----------------------------------------------------------------------------
(* MessageType, one byte on the wire (spec.md 3 and 4.1) *)

MESSAGE_TYPE_ACK == 2
MESSAGE_TYPE_OPEN == 3
MESSAGE_TYPE_LEN == 1

MessageType_marshal_size(t) == MESSAGE_TYPE_LEN

MessageType_to_byte(t) ==
  IF t = "DataChannelAck" THEN MESSAGE_TYPE_ACK ELSE MESSAGE_TYPE_OPEN

\* appends the wire code; cannot fail; returns 1
MessageType_marshal_to(t, out) ==
  [res |-> Ok(MESSAGE_TYPE_LEN), buf |-> Append(out, MessageType_to_byte(t))]

\* reads one byte.  adv: where a failed decode leaves the cursor, which the
\* contract leaves open (0 = type byte unread, 1 = type byte consumed)
MessageType_unmarshal_from(b, adv) ==
  IF Len(b) < MESSAGE_TYPE_LEN
    THEN [res |-> Err(MessageTypeError_UnexpectedEndOfBuffer(MESSAGE_TYPE_LEN, Len(b))),
          rest |-> b]
  ELSE IF b[1] = MESSAGE_TYPE_ACK
    THEN [res |-> Ok("DataChannelAck"), rest |-> Drop(b, MESSAGE_TYPE_LEN)]
  ELSE IF b[1] = MESSAGE_TYPE_OPEN
    THEN [res |-> Ok("DataChannelOpen"), rest |-> Drop(b, MESSAGE_TYPE_LEN)]
  ELSE [res |-> Err(MessageTypeError_InvalidMessageType(b[1])),
        rest |-> Drop(b, Min(adv, MESSAGE_TYPE_LEN))]

----------------------------------------------------------------------------
(* ChannelType, one byte on the wire (spec.md 3 and 4.2).  Reliable is 0x00 *)
(* (message.rs lines 92 and 104); the other codes are the DCEP table.       *)

ChannelTypeCode ==
  [ Reliable |-> 0, ReliableUnordered |-> 128,
    PartialReliableRexmit |-> 1, PartialReliableRexmitUnordered |-> 129,
    PartialReliableTimed |-> 2, PartialReliableTimedUnordered |-> 130 ]

ChannelType == DOMAIN ChannelTypeCode

CHANNEL_TYPE_LEN == 1

ChannelType_to_byte(c) == ChannelTypeCode[c]

ChannelType_unmarshal_from(b) ==
  IF Len(b) < CHANNEL_TYPE_LEN
    THEN Err(ChannelTypeError_UnexpectedEndOfBuffer(CHANNEL_TYPE_LEN, Len(b)))
  ELSE IF \E c \in ChannelType : ChannelTypeCode[c] = b[1]
    THEN Ok(CHOOSE c \in ChannelType : ChannelTypeCode[c] = b[1])
  ELSE Err(ChannelTypeError_InvalidChannelType(b[1]))

----------------------------------------------------------------------------
(* DataChannelOpen payload (spec.md 4.3 and 6) *)

\* channel type 1 + priority 2 + reliability parameter 4 + two lengths 2 + 2
CHANNEL_OPEN_HEADER_LEN == 11

DataChannelOpen_marshal_size(info) ==
  CHANNEL_OPEN_HEADER_LEN + Len(info.label) + Len(info.protocol)

\* the fixed header, then label, then protocol; the lengths as 16-bit fields
DataChannelOpen_marshal_to(info, out) ==
  [res |-> Ok(DataChannelOpen_marshal_size(info)),
   buf |-> out \o << ChannelType_to_byte(info.channel_type) >>
               \o put_u16(info.priority)
               \o put_u32(info.reliability_parameter)
               \o put_u16(Len(info.label) % U16)
               \o put_u16(Len(info.protocol) % U16)
               \o info.label
               \o info.protocol]

\* steps 1-8 of the decode protocol, failing fast on the first error.
\* adv: how many bytes a failed decode has consumed, which the contract
\* leaves open.
DataChannelOpen_unmarshal_from(b, adv) ==
  LET fail(e) == [res |-> Err(e), rest |-> Drop(b, Min(adv, Len(b)))]
      short(need, from) == DataChannelOpenError_UnexpectedEndOfBuffer(need, Len(b) - from)
      ct == ChannelType_unmarshal_from(b)
  IN
  IF ~ct.ok THEN fail(DataChannelOpenError_from_ChannelTypeError(ct.error))
  ELSE IF Len(b) - 1 < 2 THEN fail(short(2, 1))
  ELSE IF Len(b) - 3 < 4 THEN fail(short(4, 3))
  ELSE IF Len(b) - 7 < 2 THEN fail(short(2, 7))
  ELSE IF Len(b) - 9 < 2 THEN fail(short(2, 9))
  ELSE
    LET priority == get_u16(Drop(b, 1))
        reliability_parameter == get_u32(Drop(b, 3))
        label_len == get_u16(Drop(b, 7))
        protocol_len == get_u16(Drop(b, 9))
        H == CHANNEL_OPEN_HEADER_LEN
    IN
    IF Len(b) - H < label_len THEN fail(short(label_len, H))
    ELSE IF Len(b) - H - label_len < protocol_len
      THEN fail(short(protocol_len, H + label_len))
    ELSE IF Len(b) # H + label_len + protocol_len
      THEN fail(DataChannelOpenError_ExpectedAndActualLengthMismatch(
                  H + label_len + protocol_len, Len(b)))
    ELSE [res |-> Ok([channel_type |-> ct.value,
                      priority |-> priority,
                      reliability_parameter |-> reliability_parameter,
                      label |-> SubSeq(b, H + 1, H + label_len),
                      protocol |-> SubSeq(b, H + label_len + 1, H + label_len + protocol_len)]),
          rest |-> Drop(b, H + label_len + protocol_len)]

----------------------------------------------------------------------------
(* Message envelope, src/src/message.rs *)

\* enum Message
Message_DataChannelAck == [variant |-> "DataChannelAck"]
Message_DataChannelOpen(info) == [variant |-> "DataChannelOpen", info |-> info]

\* a tag that does not follow the active variant
Stale_message_type(m) == "DataChannelAck"

Message_message_type(m) ==
  IF m.variant = "DataChannelAck" THEN "DataChannelAck" ELSE "DataChannelOpen"

\* a size that forgets the type byte
Payload_only_marshal_size(m) ==
  IF m.variant = "DataChannelAck" THEN 0 ELSE DataChannelOpen_marshal_size(m.info)

Message_marshal_size(m) ==
  LET type_size == MessageType_marshal_size(Message_message_type(m))
      data_size == IF m.variant = "DataChannelAck" THEN 0
                   ELSE DataChannelOpen_marshal_size(m.info)
  IN  type_size + data_size

\* an encoder that writes the payload before the type byte
Payload_first_marshal_to(m, out) ==
  LET d == IF m.variant = "DataChannelAck" THEN [res |-> Ok(0), buf |-> out]
           ELSE DataChannelOpen_marshal_to(m.info, out)
      t == MessageType_marshal_to(Message_message_type(m), d.buf)
  IN  [res |-> Ok(t.res.value + d.res.value), buf |-> t.buf]

Message_marshal_to(m, out) ==
  LET t == MessageType_marshal_to(Message_message_type(m), out)
  IN  IF ~t.res.ok THEN [res |-> Err(MessageError_from_MessageTypeError(t.res.error)),
                         buf |-> t.buf]
      ELSE LET d == IF m.variant = "DataChannelAck" THEN [res |-> Ok(0), buf |-> t.buf]
                    ELSE DataChannelOpen_marshal_to(m.info, t.buf)
           IN  IF ~d.res.ok
                 THEN [res |-> Err(MessageError_from_DataChannelOpenError(d.res.error)),
                       buf |-> d.buf]
               ELSE [res |-> Ok(t.res.value + d.res.value), buf |-> d.buf]

\* a decoder whose match arms are exchanged
Swapped_arms_unmarshal_from(b, adv) ==
  LET t == MessageType_unmarshal_from(b, adv)
  IN  IF ~t.res.ok THEN [res |-> Err(MessageError_from_MessageTypeError(t.res.error)),
                         rest |-> t.rest]
      ELSE IF t.res.value = "DataChannelOpen"
        THEN [res |-> Ok(Message_DataChannelAck), rest |-> t.rest]
      ELSE LET o == DataChannelOpen_unmarshal_from(t.rest, adv)
           IN  IF ~o.res.ok
                 THEN [res |-> Err(MessageError_from_DataChannelOpenError(o.res.error)),
                       rest |-> o.rest]
               ELSE [res |-> Ok(Message_DataChannelOpen(o.res.value)), rest |-> o.rest]

Message_unmarshal_from(b, adv) ==
  LET t == MessageType_unmarshal_from(b, adv)
  IN  IF ~t.res.ok THEN [res |-> Err(MessageError_from_MessageTypeError(t.res.error)),
                         rest |-> t.rest]
      ELSE IF t.res.value = "DataChannelAck"
        THEN [res |-> Ok(Message_DataChannelAck), rest |-> t.rest]
      ELSE LET o == DataChannelOpen_unmarshal_from(t.rest, adv)
           IN  IF ~o.res.ok
                 THEN [res |-> Err(MessageError_from_DataChannelOpenError(o.res.error)),
                       rest |-> o.rest]
               ELSE [res |-> Ok(Message_DataChannelOpen(o.res.value)), rest |-> o.rest]

----------------------------------------------------------------------------
(* The values the model enumerates *)

\* bytes used in labels, protocols and free-form buffer contents
SampleBytes == {108, 255}
SampleChannelTypes == {"Reliable", "PartialReliableTimedUnordered"}
SamplePriorities == {0, 3893}
\* 16715573 = 0x00ff0f35, and 0xffffffff
SampleReliabilityParameters == { U32(255, 3893), U32(U16 - 1, U16 - 1) }
\* channel-type bytes of hand-built frames: two known codes and an unknown one
FrameChannelTypeBytes == {0, 130, 255}
\* lengths a hand-built frame may declare: small ones and two that need the high byte
DeclaredLens == (0..MaxDeclaredLen) \cup {2^8, U16 - 1}
\* what the sink holds before the message is written to it
SinkPrefixes == { <<>>, <<170>> }

DataChannelOpens ==
  [ channel_type : SampleChannelTypes,
    priority : SamplePriorities,
    reliability_parameter : SampleReliabilityParameters,
    label : SeqsUpTo(SampleBytes, MaxLabelLen),
    protocol : SeqsUpTo(SampleBytes, MaxProtocolLen) ]

\* the value of tests::unmarshal_open_success and tests::marshal:
\* label "label", protocol "protocol"
TestOpen ==
  [ channel_type |-> "Reliable",
    priority |-> 3893,
    reliability_parameter |-> U32(255, 3893),
    label |-> <<108, 97, 98, 101, 108>>,
    protocol |-> <<112, 114, 111, 116, 111, 99, 111, 108>> ]

\* the 25 bytes of the same tests
TestOpenBytes ==
  << 3, 0, 15, 53, 0, 255, 15, 53, 0, 5, 0, 8,
     108, 97, 98, 101, 108, 112, 114, 111, 116, 111, 99, 111, 108 >>

Messages ==
  { Message_DataChannelAck } \cup { Message_DataChannelOpen(i) : i \in DataChannelOpens \cup {TestOpen} }

NoMessage == [variant |-> "none"]
NotRun == Err([enum |-> "none", variant |-> "none"])

----------------------------------------------------------------------------
(* State machine: a caller builds a message and encodes it into a sink, or *)
(* receives a buffer, and then decodes the buffer.                          *)

Init ==
  /\ pc = "idle"
  /\ msg = NoMessage
  /\ sink0 = <<>>
  /\ sink = <<>>
  /\ written = NotRun
  /\ buf = <<>>
  /\ origin = "none"
  /\ rest = <<>>
  /\ result = NotRun

\* the bytes marshal_to appended to the sink
Encoding == Drop(sink, Len(sink0))

\* the caller constructs a Message and a sink
New(m, s) ==
  /\ pc = "idle"
  /\ msg' = m
  /\ sink0' = s
  /\ sink' = s
  /\ pc' = "constructed"
  /\ UNCHANGED <<written, buf, origin, rest, result>>

\* msg.marshal_to(&mut sink)
MarshalTo ==
  /\ pc = "constructed"
  /\ LET r == Message_marshal_to(msg, sink)
     IN  /\ sink' = r.buf
         /\ written' = r.res
  /\ pc' = "marshalled"
  /\ UNCHANGED <<msg, sink0, buf, origin, rest, result>>

\* the peer receives exactly the encoded bytes
ReceiveEncoded ==
  /\ pc = "marshalled"
  /\ buf' = Encoding
  /\ origin' = "encoded"
  /\ pc' = "received"
  /\ UNCHANGED <<msg, sink0, sink, written, rest, result>>

\* the peer receives only the first n bytes of the encoding
ReceivePrefix(n) ==
  /\ pc = "marshalled"
  /\ n < Len(Encoding)
  /\ buf' = Take(Encoding, n)
  /\ origin' = "prefix"
  /\ pc' = "received"
  /\ UNCHANGED <<msg, sink0, sink, written, rest, result>>

\* the peer receives the encoding followed by extra bytes
ReceiveWithTrailing(x) ==
  /\ pc = "marshalled"
  /\ Len(x) > 0
  /\ buf' = Encoding \o x
  /\ origin' = "trailing"
  /\ pc' = "received"
  /\ UNCHANGED <<msg, sink0, sink, written, rest, result>>

\* the peer receives arbitrary bytes
ReceiveRaw(b) ==
  /\ pc = "idle"
  /\ buf' = b
  /\ origin' = "raw"
  /\ pc' = "received"
  /\ UNCHANGED <<msg, sink0, sink, written, rest, result>>

\* the peer receives a DATA_CHANNEL_OPEN frame with a complete fixed header
\* whose declared lengths need not match the bytes that follow
ReceiveOpenFrame(c, L, P, body) ==
  /\ pc = "idle"
  /\ buf' = << MESSAGE_TYPE_OPEN, c >> \o put_u16(3893) \o put_u32(U32(255, 3893))
              \o put_u16(L) \o put_u16(P) \o body
  /\ origin' = "frame"
  /\ pc' = "received"
  /\ UNCHANGED <<msg, sink0, sink, written, rest, result>>

\* Message::unmarshal_from(&mut buf)
UnmarshalFrom(adv) ==
  /\ pc = "received"
  /\ LET r == Message_unmarshal_from(buf, adv)
     IN  /\ result' = r.res
         /\ rest' = r.rest
  /\ pc' = "unmarshalled"
  /\ UNCHANGED <<msg, sink0, sink, written, buf, origin>>

RawBuffers ==
  { <<>>, TestOpenBytes }
    \cup { << f >> \o t : f \in Byte, t \in SeqsUpTo(SampleBytes, MaxTailLen) }

Next ==
  \/ pc = "idle" /\ \E m \in Messages, s \in SinkPrefixes : New(m, s)
  \/ MarshalTo
  \/ ReceiveEncoded
  \/ pc = "marshalled" /\ \E n \in 0..Len(Encoding) : ReceivePrefix(n)
  \/ pc = "marshalled" /\ \E x \in SeqsUpTo(SampleBytes, MaxExtraLen) : ReceiveWithTrailing(x)
  \/ pc = "idle" /\ \E b \in RawBuffers : ReceiveRaw(b)
  \/ pc = "idle" /\ \E c \in FrameChannelTypeBytes, L \in DeclaredLens, P \in DeclaredLens,
                        body \in SeqsUpTo(SampleBytes, MaxBodyLen) :
                          ReceiveOpenFrame(c, L, P, body)
  \/ pc = "received" /\ \E adv \in 0..Len(buf) : UnmarshalFrom(adv)

Spec == Init /\ [][Next]_vars

----------------------------------------------------------------------------
(* Properties *)

Marshalled == pc \in {"marshalled", "received", "unmarshalled"} /\ msg # NoMessage
Unmarshalled == pc = "unmarshalled"
IsOpen(m) == m.variant = "DataChannelOpen"

\* the buffer starts with the DATA_CHANNEL_OPEN type byte, holds the whole
\* fixed header, and names a known channel type
OpenFrame ==
  /\ Len(buf) >= MESSAGE_TYPE_LEN + CHANNEL_OPEN_HEADER_LEN
  /\ buf[1] = MESSAGE_TYPE_OPEN
  /\ \E c \in ChannelType : ChannelTypeCode[c] = buf[2]
\* the lengths such a frame declares, and the bytes present after the header
DeclaredLabelLen == buf[9] * 2^8 + buf[10]
DeclaredProtocolLen == buf[11] * 2^8 + buf[12]
BodyLen == Len(buf) - (MESSAGE_TYPE_LEN + CHANNEL_OPEN_HEADER_LEN)

\* C1: decoding exactly the bytes marshal_to wrote for a message m returns Ok(m)
C1_RoundTrip ==
  (Unmarshalled /\ origin = "encoded") => (result.ok /\ result.value = msg)

C1_Witness ==
  /\ Unmarshalled /\ origin = "encoded" /\ IsOpen(msg)
  /\ Len(msg.info.label) > 1 /\ Len(msg.info.protocol) > 0
  /\ msg.info.priority > 2^8
  /\ result.ok

\* C2: marshal_to appends exactly marshal_size() bytes to the sink and returns
\* that number; marshal_size is 1 for an Ack and 1 + 11 + len(label) +
\* len(protocol) for an Open
C2_SizeConsistency ==
  Marshalled =>
    LET n == Message_marshal_size(msg)
    IN  /\ written.ok /\ written.value = n
        /\ Len(sink) = Len(sink0) + n
        /\ Take(sink, Len(sink0)) = sink0
        /\ n = IF IsOpen(msg) THEN 1 + 11 + Len(msg.info.label) + Len(msg.info.protocol)
               ELSE 1

C2_Witness ==
  /\ Marshalled /\ IsOpen(msg) /\ Len(sink0) > 0
  /\ Len(msg.info.label) > 0 /\ Len(msg.info.protocol) > 0
  /\ written.ok /\ written.value = Len(sink) - Len(sink0)

\* C3: decoding a strict prefix of a valid encoding fails, and the innermost
\* cause of the error is an UnexpectedEndOfBuffer variant
C3_ShortBufferRejection ==
  (Unmarshalled /\ origin = "prefix") =>
    (~result.ok /\ InnermostCause(result.error).variant = "UnexpectedEndOfBuffer")

C3_Witness ==
  /\ Unmarshalled /\ origin = "prefix" /\ IsOpen(msg)
  /\ Len(buf) > MESSAGE_TYPE_LEN + CHANNEL_OPEN_HEADER_LEN
  /\ ~result.ok

\* C4: a non-empty buffer whose first byte b is neither 0x02 nor 0x03 decodes to
\* Err(MessageError::MessageType(InvalidMessageType { invalid_type: b }))
C4_DiscriminantRejection ==
  (Unmarshalled /\ Len(buf) > 0 /\ buf[1] \notin {2, 3}) =>
    result = [ok |-> FALSE,
              error |-> [enum |-> "MessageError", variant |-> "MessageType",
                         inner |-> [enum |-> "MessageTypeError",
                                    variant |-> "InvalidMessageType",
                                    invalid_type |-> buf[1]]]]

C4_Witness ==
  /\ Unmarshalled /\ Len(buf) > 1 /\ buf[1] = 1
  /\ ~result.ok /\ result.error.inner.invalid_type = 1

\* C5: decoding an empty buffer fails with
\* MessageError::MessageType(UnexpectedEndOfBuffer { expected: 1, actual: 0 })
C5_EmptyBuffer ==
  (Unmarshalled /\ buf = <<>>) =>
    result = [ok |-> FALSE,
              error |-> [enum |-> "MessageError", variant |-> "MessageType",
                         inner |-> [enum |-> "MessageTypeError",
                                    variant |-> "UnexpectedEndOfBuffer",
                                    expected |-> 1, actual |-> 0]]]

C5_Witness ==
  Unmarshalled /\ buf = <<>> /\ origin = "raw" /\ ~result.ok

\* C6: an Open is written as 0x03, the channel-type byte, priority (2 bytes
\* big-endian), reliability_parameter (4 bytes big-endian), len(label) and
\* len(protocol) (2 bytes big-endian each), the label, the protocol; an Ack is
\* written as exactly [0x02]
C6_WireLayout ==
  Marshalled =>
    LET E == Encoding
    IN  IF IsOpen(msg)
          THEN LET L == Len(msg.info.label)
                   P == Len(msg.info.protocol)
               IN  /\ Len(E) = 12 + L + P
                   /\ \A i \in 1..Len(E) : E[i] \in Byte
                   /\ E[1] = 3
                   /\ E[2] = ChannelTypeCode[msg.info.channel_type]
                   /\ E[3] * 256 + E[4] = msg.info.priority
                   /\ E[5] * 256 + E[6] = msg.info.reliability_parameter[1]
                   /\ E[7] * 256 + E[8] = msg.info.reliability_parameter[2]
                   /\ E[9] * 256 + E[10] = L
                   /\ E[11] * 256 + E[12] = P
                   /\ SubSeq(E, 13, 12 + L) = msg.info.label
                   /\ SubSeq(E, 13 + L, 12 + L + P) = msg.info.protocol
        ELSE E = <<2>>

C6_Witness ==
  Marshalled /\ msg = Message_DataChannelOpen(TestOpen) /\ Encoding = TestOpenBytes

C8_TrailingByteRejection ==
  (Unmarshalled /\ OpenFrame /\ BodyLen > DeclaredLabelLen + DeclaredProtocolLen) =>
    /\ ~result.ok
    /\ result.error.enum = "MessageError" /\ result.error.variant = "DataChannelOpen"
    /\ result.error.inner.enum = "DataChannelOpenError"
    /\ result.error.inner.variant = "ExpectedAndActualLengthMismatch"

C8_Witness ==
  /\ Unmarshalled /\ OpenFrame /\ origin = "trailing"
  /\ DeclaredLabelLen > 0 /\ DeclaredProtocolLen > 0
  /\ BodyLen > DeclaredLabelLen + DeclaredProtocolLen
  /\ ~result.ok

\* C9: a buffer whose first byte is 0x02 decodes to Ok(DataChannelAck), and
\* exactly that one byte is consumed: the bytes after it stay in the buffer
C9_AckDecode ==
  (Unmarshalled /\ Len(buf) > 0 /\ buf[1] = 2) =>
    /\ result = [ok |-> TRUE, value |-> [variant |-> "DataChannelAck"]]
    /\ rest = Drop(buf, 1)

C9_Witness ==
  Unmarshalled /\ Len(buf) > 1 /\ buf[1] = 2 /\ result.ok /\ Len(rest) = Len(buf) - 1

\* C10: every Err of decode is MessageError::MessageType(e) with e the error of
\* the type-byte stage, or MessageError::DataChannelOpen(e) with e the error of
\* the open-payload stage; the type-byte stage runs first, so a MessageType
\* error is returned with no payload byte read; the direct MessageError
\* variants are never produced
C10_ErrorLayering ==
  (Unmarshalled /\ ~result.ok) =>
    LET t == MessageType_unmarshal_from(buf, 0).res
        e == result.error
    IN  /\ e.enum = "MessageError"
        /\ e.variant \in {"MessageType", "DataChannelOpen"}
        /\ ~t.ok => (/\ e.variant = "MessageType"
                     /\ e.inner = t.error
                     /\ Len(buf) - Len(rest) <= 1)
        /\ t.ok => (/\ e.variant = "DataChannelOpen"
                    /\ t.value = "DataChannelOpen"
                    /\ e.inner = DataChannelOpen_unmarshal_from(Drop(buf, 1), 0).res.error)

C10_Witness ==
  /\ Unmarshalled /\ ~result.ok
  /\ result.error.variant = "DataChannelOpen"
  /\ result.error.inner.variant = "ChannelType"
  /\ result.error.inner.inner.variant = "InvalidChannelType"

====
